---- MODULE Spec2Model ----
(***************************************************************************)
(* ATOM (astrodyl/atom): the Einstein Probe responder and its sqlite       *)
(* store.  One respond() call is one action.  Angles are in hundredths of  *)
(* a degree, times in minutes.  The tables are sequences of rows; a row's  *)
(* id is its position (sqlite rowid, rows are never deleted).              *)
(***************************************************************************)
EXTENDS Integers, Sequences, FiniteSets, TLC

VARIABLES
    notice, transient, response,  \* the three tables of the database
    skynet,                       \* the observations booked at the scheduler
    history,                      \* the respond() calls made so far
    batch,                        \* Listener: the messages consume() returned, not yet handled
    delivered,                    \* Listener: the messages consume() has returned so far
    handled,                      \* Listener: the messages passed to factories.responder
    probe                         \* the last direct call of a store or responder function

vars == <<notice, transient, response, skynet, history, batch, delivered, handled, probe>>

\* ------------------------------------------------------------------ bounds
\* Number of respond() calls in a run.
MaxCalls == 2

\* --------------------------------------------------------------- constants
\* Python's None / SQL NULL in an id column (row ids start at 1).
NoneId == 0
\* range_deg=0.5 of known_transient, in hundredths of a degree.
RangeDeg == 50
\* timedelta(minutes=30) of known_transient.
WindowMinutes == 30
\* 4.0 * u.deg of is_interesting, in hundredths of a degree.
GalacticCut == 400
\* 360 degrees, in hundredths of a degree.
FullCircle == 36000

\* The row standing for "no row" (fetchone() returning None).
NoneRow == [id |-> NoneId]

\* The notifiers read from the settings' notification section, in order:
\* the two kinds factories.notifier builds.
Notifiers == <<"groupme", "slack">>

\* ------------------------------------------------------------------ inputs
\* Sky positions with their one-sigma error; galactic_b is what astropy's
\* coords.galactic.b gives for (ra, dec).
Localizations ==
    { [ra |-> 12000, dec |-> 4000,  galactic_b |-> 2961, error |-> 2],
      [ra |-> 12001, dec |-> 4001,  galactic_b |-> 2962, error |-> 1],
      [ra |-> 12051, dec |-> 4000,  galactic_b |-> 2999, error |-> 2],
      [ra |-> 26640, dec |-> -2900, galactic_b |-> -3,   error |-> 2] }

TriggerIds == {100, 200}

EventTimes == {0, 30, 31}

\* The notice object a Responder holds (EinsteinJsonNotice attributes).
NoticeOf(trig, loc, t, astro) ==
    [ id               |-> trig,
      observatory      |-> "Einstein Probe",
      instrument       |-> "WXT",
      event_time       |-> t,
      coords           |-> [ra |-> loc.ra, dec |-> loc.dec,
                            galactic_b |-> loc.galactic_b],
      coords_error_deg |-> loc.error,
      astrophysical    |-> astro ]

Notices ==
    { NoticeOf(trig, loc, t, astro) :
        trig \in TriggerIds, loc \in Localizations,
        t \in EventTimes, astro \in BOOLEAN }

\* ----------------------------------------------------------------- helpers
Range(s) == { s[i] : i \in 1..Len(s) }

Abs(x) == IF x < 0 THEN -x ELSE x

RECURSIVE Count(_, _)
\* Number of steps of a log whose op is in ops.
Count(log, ops) ==
    IF log = <<>> THEN 0
    ELSE (IF Head(log).op \in ops THEN 1 ELSE 0) + Count(Tail(log), ops)

\* ------------------------------------------------------------ store (db.py)
\* A database is the three tables; sched is the external scheduler.
Store(n, t, r, s) == [notice |-> n, transient |-> t, response |-> r, skynet |-> s]

\* SELECT * FROM table WHERE col = ?   (fetchall; "= NULL" matches no row)
get(table, col, val) ==
    SelectSeq(table, LAMBDA row : val # NoneId /\ row[col] = val)

\* The rows fetchone() may return: one of the result rows, or None.
fetchone(rows) == IF rows = <<>> THEN {NoneRow} ELSE Range(rows)

\* Mutant of Notice_add: the row is written without its owning transient.
Notice_add_no_owner(table, n, transient_id) ==
    Append(table,
        [ id            |-> Len(table) + 1,
          trigger_id    |-> n.id,
          transient_id  |-> NoneId,
          trigger_time  |-> n.event_time,
          observatory   |-> n.observatory,
          instrument    |-> n.instrument,
          ra_deg        |-> n.coords.ra,
          dec_deg       |-> n.coords.dec,
          pos_error_deg |-> n.coords_error_deg ])

\* Mutant of Notice_add: a row of the same trigger is replaced in place
\* (INSERT OR REPLACE keyed by trigger_id) instead of a row being appended.
Notice_add_replacing(table, n, transient_id) ==
    LET row(id) == [ id            |-> id,
                     trigger_id    |-> n.id,
                     transient_id  |-> transient_id,
                     trigger_time  |-> n.event_time,
                     observatory   |-> n.observatory,
                     instrument    |-> n.instrument,
                     ra_deg        |-> n.coords.ra,
                     dec_deg       |-> n.coords.dec,
                     pos_error_deg |-> n.coords_error_deg ]
    IN  IF \E i \in 1..Len(table) : table[i].trigger_id = n.id
        THEN [ i \in 1..Len(table) |->
                 IF table[i].trigger_id = n.id THEN row(i) ELSE table[i] ]
        ELSE Append(table, row(Len(table) + 1))

\* INSERT INTO notice: the new table.
Notice_add(table, n, transient_id) ==
    Append(table,
        [ id            |-> Len(table) + 1,
          trigger_id    |-> n.id,
          transient_id  |-> transient_id,
          trigger_time  |-> n.event_time,
          observatory   |-> n.observatory,
          instrument    |-> n.instrument,
          ra_deg        |-> n.coords.ra,
          dec_deg       |-> n.coords.dec,
          pos_error_deg |-> n.coords_error_deg ])

\* INSERT INTO response: the new table.
Response_add(table, obs_id, transient_id) ==
    Append(table,
        [ id           |-> Len(table) + 1,
          obs_id       |-> obs_id,
          transient_id |-> transient_id ])

\* INSERT INTO transient: the new table (the new row's id is its length).
Transient_add(table, n) ==
    Append(table,
        [ id            |-> Len(table) + 1,
          event_time    |-> n.event_time,
          ra_deg        |-> n.coords.ra,
          dec_deg       |-> n.coords.dec,
          pos_error_deg |-> n.coords_error_deg,
          astrophysical |-> IF n.astrophysical THEN 1 ELSE 0 ])

\* Mutant of Transient_update: the UPDATE also writes the notice's
\* astrophysical flag.
Transient_update_with_flag(table, transient_id, n) ==
    [ i \in 1..Len(table) |->
        IF table[i].id = transient_id
        THEN [table[i] EXCEPT !.ra_deg = n.coords.ra,
                              !.dec_deg = n.coords.dec,
                              !.pos_error_deg = n.coords_error_deg,
                              !.astrophysical = IF n.astrophysical THEN 1 ELSE 0]
        ELSE table[i] ]

\* Mutant of Transient_update: the UPDATE also writes the notice's
\* event_time.
Transient_update_with_time(table, transient_id, n) ==
    [ i \in 1..Len(table) |->
        IF table[i].id = transient_id
        THEN [table[i] EXCEPT !.event_time = n.event_time,
                              !.ra_deg = n.coords.ra,
                              !.dec_deg = n.coords.dec,
                              !.pos_error_deg = n.coords_error_deg]
        ELSE table[i] ]

\* UPDATE transient SET ra_deg, dec_deg, pos_error_deg WHERE id = transient_id
Transient_update(table, transient_id, n) ==
    [ i \in 1..Len(table) |->
        IF table[i].id = transient_id
        THEN [table[i] EXCEPT !.ra_deg = n.coords.ra,
                              !.dec_deg = n.coords.dec,
                              !.pos_error_deg = n.coords_error_deg]
        ELSE table[i] ]

\* UPDATE transient SET astrophysical = 0 WHERE id = transient_id
Transient_set_false_alarm(table, transient_id) ==
    [ i \in 1..Len(table) |->
        IF table[i].id = transient_id
        THEN [table[i] EXCEPT !.astrophysical = 0]
        ELSE table[i] ]

\* Mutant of Transient_search: the bounds of the time window and of the box
\* are exclusive (< and > where BETWEEN includes its ends).
Transient_search_exclusive(table, ra_deg, dec_deg, range_deg, start_time, end_time) ==
    LET ra_min  == ra_deg - range_deg
        ra_max  == ra_deg + range_deg
        dec_min == dec_deg - range_deg
        dec_max == dec_deg + range_deg
        inside(x, lo, hi) == lo < x /\ x < hi
        ra_condition(x) ==
            IF ra_min < 0
            THEN inside(x, -1, ra_max) \/ inside(x, FullCircle + ra_min, FullCircle + 1)
            ELSE IF ra_max > FullCircle
            THEN inside(x, -1, ra_max - FullCircle) \/ inside(x, ra_min, FullCircle + 1)
            ELSE inside(x, ra_min, ra_max)
    IN  SelectSeq(table, LAMBDA row :
            /\ inside(row.event_time, start_time, end_time)
            /\ ra_condition(row.ra_deg)
            /\ inside(row.dec_deg, dec_min, dec_max))

\* Mutant of Transient_search: the RA interval is never split, a box that
\* crosses 0 or 360 is searched as ra_deg BETWEEN ra_min AND ra_max.
Transient_search_no_wraparound(table, ra_deg, dec_deg, range_deg, start_time, end_time) ==
    LET ra_min  == ra_deg - range_deg
        ra_max  == ra_deg + range_deg
        dec_min == dec_deg - range_deg
        dec_max == dec_deg + range_deg
        between(x, lo, hi) == lo <= x /\ x <= hi
    IN  SelectSeq(table, LAMBDA row :
            /\ between(row.event_time, start_time, end_time)
            /\ between(row.ra_deg, ra_min, ra_max)
            /\ between(row.dec_deg, dec_min, dec_max))

\* Mutant of Transient_search: the event_time condition is left out of the
\* WHERE clause.
Transient_search_any_time(table, ra_deg, dec_deg, range_deg, start_time, end_time) ==
    LET ra_min  == ra_deg - range_deg
        ra_max  == ra_deg + range_deg
        dec_min == dec_deg - range_deg
        dec_max == dec_deg + range_deg
        between(x, lo, hi) == lo <= x /\ x <= hi
        ra_condition(x) ==
            IF ra_min < 0
            THEN between(x, 0, ra_max) \/ between(x, FullCircle + ra_min, FullCircle)
            ELSE IF ra_max > FullCircle
            THEN between(x, 0, ra_max - FullCircle) \/ between(x, ra_min, FullCircle)
            ELSE between(x, ra_min, ra_max)
    IN  SelectSeq(table, LAMBDA row :
            /\ ra_condition(row.ra_deg)
            /\ between(row.dec_deg, dec_min, dec_max))

\* Transient.search: the rows inside the time window and the (ra, dec) box,
\* the RA interval split in two when it crosses 0 or 360 (fetchall).
Transient_search(table, ra_deg, dec_deg, range_deg, start_time, end_time) ==
    LET ra_min  == ra_deg - range_deg
        ra_max  == ra_deg + range_deg
        dec_min == dec_deg - range_deg
        dec_max == dec_deg + range_deg
        between(x, lo, hi) == lo <= x /\ x <= hi
        ra_condition(x) ==
            IF ra_min < 0
            THEN between(x, 0, ra_max) \/ between(x, FullCircle + ra_min, FullCircle)
            ELSE IF ra_max > FullCircle
            THEN between(x, 0, ra_max - FullCircle) \/ between(x, ra_min, FullCircle)
            ELSE between(x, ra_min, ra_max)
    IN  SelectSeq(table, LAMBDA row :
            /\ between(row.event_time, start_time, end_time)
            /\ ra_condition(row.ra_deg)
            /\ between(row.dec_deg, dec_min, dec_max))

\* ------------------------------------------- scheduler (observation.py)
\* Observation.add: the scheduler books a new observation, pointed at the notice's coordinates (raHours * 15, decDegs).
Observation_add(sched, n) ==
    Append(sched,
        [ id      |-> Len(sched) + 1,
          ra_deg  |-> n.coords.ra,
          dec_deg |-> n.coords.dec ])

\* Observation.update: the scheduler re-points the observation.
Observation_update(sched, obs_id, n) ==
    [ i \in 1..Len(sched) |->
        IF sched[i].id = obs_id
        THEN [sched[i] EXCEPT !.ra_deg = n.coords.ra, !.dec_deg = n.coords.dec]
        ELSE sched[i] ]

\* ------------------------------------------------ responder (responder.py)
\* One call a respond() makes: a store write, a scheduler request or a send.
\* out is "ok" when the call returned and "raise" when it raised; for
\* Observation.get it is the state the scheduler reported.  (A send that the
\* channel answers with an HTTP error status returns like any other: send()
\* hands back the requests response and its callers ignore it.)
Step(op, obs, tid, to) ==
    [op |-> op, obs |-> obs, tid |-> tid, to |-> to, out |-> "ok"]

\* The calls that go over the network and may raise, and the building of
\* the update message, whose ', '.join raises TypeError when the stored
\* obs_id values are integers.
MayRaise == {"Observation.add", "Observation.get", "Observation.update",
             "send_new", "send_update", "join"}

\* The steps that always raise: .id (get_responses) or .astrophysical
\* (respond_to_update_notice) of the None that Transient.get returned, and
\* None * 60 in coordinates_message.
MustRaise == {"AttributeError", "TypeError"}

\* Responder.is_new_notice
is_new_notice(db, n) == get(db.notice, "trigger_id", n.id) = <<>>

\* Mutant of is_interesting: the cut is inclusive (>= where the code has >).
is_interesting_inclusive(n) == Abs(n.coords.galactic_b) >= GalacticCut

\* EinsteinResponder.is_interesting
is_interesting(n) == Abs(n.coords.galactic_b) > GalacticCut

\* The rows Transient.search(..., one_or_none=True) may return in
\* known_transient.
known_transient_matches(db, n) ==
    fetchone(Transient_search(db.transient, n.coords.ra, n.coords.dec, RangeDeg,
                              n.event_time - WindowMinutes,
                              n.event_time + WindowMinutes))

\* Responder.known_transient, match being the row the search returned.
known_transient(match) == IF match # NoneRow THEN match.id ELSE NoneId

\* Responder.coordinates_message, which new_event_message and
\* updated_event_message call before the first send: it multiplies
\* coords_error_deg by 60, a TypeError when the notice has none.
coordinates_message(n) ==
    IF n.coords_error_deg = NoneId
    THEN <<Step("TypeError", NoneId, NoneId, "")>>
    ELSE <<>>

\* Mutant of notify: the loop stops after the first notifier.
notify_first_only(op) == <<Step(op, NoneId, NoneId, Notifiers[1])>>

\* The for-loops over self.notifiers of notify_new_event and
\* notify_update_event.
notify(op) == [ i \in 1..Len(Notifiers) |-> Step(op, NoneId, NoneId, Notifiers[i]) ]

\* Mutant of respond_to_new_notice: is_interesting() is not asked, every
\* astrophysical notice is followed up.
respond_to_new_notice_unguarded(db, n, match) ==
    LET respondable  == n.astrophysical
        known        == IF respondable THEN known_transient(match) ELSE NoneId
        early_obs_id == Len(db.skynet) + 1
        schedule ==
            IF respondable /\ known = NoneId
            THEN <<Step("Observation.add", early_obs_id, NoneId, ""),
                   Step("Response.add", early_obs_id, known, "")>>
                 \o coordinates_message(n)
                 \o notify("send_new")
            ELSE <<>>
        create ==
            IF known = NoneId
            THEN <<Step("Transient.add", NoneId, Len(db.transient) + 1, "")>>
            ELSE <<>>
        transient_id == IF known = NoneId THEN Len(db.transient) + 1 ELSE known
    IN  schedule \o create \o <<Step("Notice.add", NoneId, transient_id, "")>>

\* Mutant of respond_to_new_notice: a notice matched to a known Transient is
\* followed up all the same, its Response tied to that Transient.
respond_to_new_notice_despite_match(db, n, match) ==
    LET respondable  == n.astrophysical /\ is_interesting(n)
        known        == IF respondable THEN known_transient(match) ELSE NoneId
        early_obs_id == Len(db.skynet) + 1
        schedule ==
            IF respondable
            THEN <<Step("Observation.add", early_obs_id, NoneId, ""),
                   Step("Response.add", early_obs_id, known, "")>>
                 \o coordinates_message(n)
                 \o notify("send_new")
            ELSE <<>>
        create ==
            IF known = NoneId
            THEN <<Step("Transient.add", NoneId, Len(db.transient) + 1, "")>>
            ELSE <<>>
        transient_id == IF known = NoneId THEN Len(db.transient) + 1 ELSE known
    IN  schedule \o create \o <<Step("Notice.add", NoneId, transient_id, "")>>

\* Mutant of respond_to_new_notice: the Transient and the Notice row are
\* written first, the follow-up is scheduled and announced after them.
respond_to_new_notice_persist_first(db, n, match) ==
    LET respondable  == n.astrophysical /\ is_interesting(n)
        known        == IF respondable THEN known_transient(match) ELSE NoneId
        early_obs_id == Len(db.skynet) + 1
        schedule ==
            IF respondable /\ known = NoneId
            THEN <<Step("Observation.add", early_obs_id, NoneId, ""),
                   Step("Response.add", early_obs_id, known, "")>>
                 \o coordinates_message(n)
                 \o notify("send_new")
            ELSE <<>>
        create ==
            IF known = NoneId
            THEN <<Step("Transient.add", NoneId, Len(db.transient) + 1, "")>>
            ELSE <<>>
        transient_id == IF known = NoneId THEN Len(db.transient) + 1 ELSE known
    IN  create \o <<Step("Notice.add", NoneId, transient_id, "")>> \o schedule

\* EinsteinResponder.respond_to_new_notice: the calls it makes, in order,
\* when none raises.  match is the row known_transient's search returned.
respond_to_new_notice(db, n, match) ==
    LET respondable  == n.astrophysical /\ is_interesting(n)
        known        == IF respondable THEN known_transient(match) ELSE NoneId
        early_obs_id == Len(db.skynet) + 1
        schedule ==
            IF respondable /\ known = NoneId
            THEN <<Step("Observation.add", early_obs_id, NoneId, ""),
                   Step("Response.add", early_obs_id, known, "")>>
                 \o coordinates_message(n)
                 \o notify("send_new")
            ELSE <<>>
        create ==
            IF known = NoneId
            THEN <<Step("Transient.add", NoneId, Len(db.transient) + 1, "")>>
            ELSE <<>>
        transient_id == IF known = NoneId THEN Len(db.transient) + 1 ELSE known
    IN  schedule \o create \o <<Step("Notice.add", NoneId, transient_id, "")>>

\* Mutant of get_transient: the most recently stored Transient is returned,
\* whatever the notice row names.
get_transient_latest(db, row) ==
    IF db.transient = <<>> THEN NoneRow ELSE db.transient[Len(db.transient)]

\* Responder.get_transient, row being the notice row Notice.get returned.
get_transient(db, row) ==
    LET rows == get(db.transient, "id", row.transient_id)
    IN  IF rows = <<>> THEN NoneRow ELSE rows[1]

\* The states the scheduler may report for the observations of the
\* transient's Response rows, one per row ("active" is the only value the
\* responder inspects).
reported_states(db, t) ==
    [ 1..Len(get(db.response, "transient_id", t.id)) -> {"active", "completed"} ]

\* Responder.get_responses(active=True): the Response rows of the transient
\* whose observation the scheduler reports as active.
get_responses(db, t, states) ==
    LET rows == get(db.response, "transient_id", t.id)
        RECURSIVE active_responses(_)
        active_responses(i) ==
            IF i > Len(rows) THEN <<>>
            ELSE (IF states[i] = "active" THEN <<rows[i]>> ELSE <<>>)
                 \o active_responses(i + 1)
    IN  active_responses(1)

\* The Observation.get requests get_responses makes, one per Response row.
get_responses_calls(db, t, states) ==
    LET rows == get(db.response, "transient_id", t.id)
    IN  [ i \in 1..Len(rows) |->
            [Step("Observation.get", rows[i].obs_id, NoneId, "")
                EXCEPT !.out = states[i]] ]

RECURSIVE update_each(_)
\* The body of "for resp in responses" in respond_to_update_notice.
update_each(responses) ==
    IF responses = <<>> THEN <<>>
    ELSE <<Step("Observation.update", Head(responses).obs_id, NoneId, ""),
           Step("Transient.update", NoneId, Head(responses).transient_id, "")>>
         \o update_each(Tail(responses))

\* Mutant of respond_to_update_notice: a notice whose Transient is missing is
\* recorded all the same instead of raising.
respond_to_update_notice_lenient(db, n, row1, row2, states) ==
    LET t         == get_transient(db, row1)
        t2        == get_transient(db, row2)
        responses == get_responses(db, t2, states)
    IN  IF t2 = NoneRow \/ t = NoneRow
        THEN <<Step("Notice.add", NoneId, row1.transient_id, "")>>
        ELSE get_responses_calls(db, t2, states)
             \o (IF t.astrophysical = 1 /\ ~n.astrophysical
                 THEN <<Step("Transient.set_false_alarm", NoneId, t.id, "")>>
                 ELSE IF is_interesting(n) /\ responses # <<>>
                 THEN update_each(responses)
                      \o coordinates_message(n)
                      \o <<Step("join", NoneId, NoneId, "")>>
                      \o notify("send_update")
                 ELSE <<>>)
             \o <<Step("Notice.add", NoneId, t.id, "")>>

\* EinsteinResponder.respond_to_update_notice: the calls it makes, in order,
\* when none raises.  row1 and row2 are the notice rows the two
\* get_transient() calls (lines 111 and 112) fetched, states what the
\* scheduler reports for the transient's observations.
respond_to_update_notice(db, n, row1, row2, states) ==
    LET t         == get_transient(db, row1)
        t2        == get_transient(db, row2)
        responses == get_responses(db, t2, states)
    IN  IF t2 = NoneRow
        THEN <<Step("AttributeError", NoneId, NoneId, "")>>
        ELSE IF t = NoneRow
        THEN get_responses_calls(db, t2, states)
             \o <<Step("AttributeError", NoneId, NoneId, "")>>
        ELSE get_responses_calls(db, t2, states)
             \o (IF t.astrophysical = 1 /\ ~n.astrophysical
                 THEN <<Step("Transient.set_false_alarm", NoneId, t.id, "")>>
                 ELSE IF is_interesting(n) /\ responses # <<>>
                 THEN update_each(responses)
                      \o coordinates_message(n)
                      \o <<Step("join", NoneId, NoneId, "")>>
                      \o notify("send_update")
                 ELSE <<>>)
             \o <<Step("Notice.add", NoneId, t.id, "")>>

\* ------------------------------------------------------- running the calls
\* The effect of one call that returned.
Apply(db, step, n) ==
    CASE step.op = "Observation.add" ->
            [db EXCEPT !.skynet = Observation_add(db.skynet, n)]
      [] step.op = "Observation.update" ->
            [db EXCEPT !.skynet = Observation_update(db.skynet, step.obs, n)]
      [] step.op = "Response.add" ->
            [db EXCEPT !.response = Response_add(db.response, step.obs, step.tid)]
      [] step.op = "Transient.add" ->
            [db EXCEPT !.transient = Transient_add(db.transient, n)]
      [] step.op = "Transient.update" ->
            [db EXCEPT !.transient = Transient_update(db.transient, step.tid, n)]
      [] step.op = "Transient.set_false_alarm" ->
            [db EXCEPT !.transient = Transient_set_false_alarm(db.transient, step.tid)]
      [] step.op = "Notice.add" ->
            [db EXCEPT !.notice = Notice_add(db.notice, n, step.tid)]
      [] OTHER -> db

RECURSIVE ApplyAll(_, _, _)
ApplyAll(db, steps, n) ==
    IF steps = <<>> THEN db
    ELSE ApplyAll(Apply(db, Head(steps), n), Tail(steps), n)

\* Where an exception may leave the calls: 0 is "nowhere" (respond() returns),
\* i is "the i-th call raises" and nothing after it runs.
RaisePoints(calls) ==
    LET must == { i \in 1..Len(calls) : calls[i].op \in MustRaise }
        may  == { i \in 1..Len(calls) : calls[i].op \in MayRaise }
    IN  IF must = {} THEN {0} \cup may
        ELSE LET first == CHOOSE i \in must : \A j \in must : i <= j
             IN  {first} \cup { i \in may : i < first }

\* The calls that returned, when the raise_at-th raised (0: none did).
Returned(calls, raise_at) ==
    IF raise_at = 0 THEN calls ELSE SubSeq(calls, 1, raise_at - 1)

\* What respond() did: the calls that returned, with their outcome, then the
\* one that raised.
Log(calls, raise_at) ==
    Returned(calls, raise_at)
    \o (IF raise_at = 0 THEN <<>>
        ELSE <<[calls[raise_at] EXCEPT !.out = "raise"]>>)

\* The state after respond() made `calls` and the raise_at-th raised.
Finish(n, branch, calls, raise_at) ==
    LET db    == Store(notice, transient, response, skynet)
        after == ApplyAll(db, Returned(calls, raise_at), n)
    IN  /\ notice'    = after.notice
        /\ transient' = after.transient
        /\ response'  = after.response
        /\ skynet'    = after.skynet
        /\ history'   = Append(history,
               [ notice |-> n,
                 branch |-> branch,
                 log    |-> Log(calls, raise_at),
                 raised |-> raise_at # 0,
                 before |-> [notice |-> notice, transient |-> transient,
                             response |-> response] ])

\* EinsteinResponder.respond
respond(n) ==
    LET db == Store(notice, transient, response, skynet)
    IN  IF is_new_notice(db, n)
        THEN \E match \in (IF n.astrophysical /\ is_interesting(n)
                           THEN known_transient_matches(db, n) ELSE {NoneRow}) :
               LET calls == respond_to_new_notice(db, n, match)
               IN  \E raise_at \in RaisePoints(calls) :
                       Finish(n, "new", calls, raise_at)
        ELSE \E row1 \in fetchone(get(db.notice, "trigger_id", n.id)) :
             \E row2 \in fetchone(get(db.notice, "trigger_id", n.id)) :
             \E states \in reported_states(db, get_transient(db, row2)) :
               LET calls == respond_to_update_notice(db, n, row1, row2, states)
               IN  \E raise_at \in RaisePoints(calls) :
                       Finish(n, "update", calls, raise_at)

\* A notice arrives and is responded to.
Respond ==
    /\ Len(history) < MaxCalls
    /\ \E n \in Notices : respond(n)
    /\ UNCHANGED <<batch, delivered, handled, probe>>

\* A fresh database and a scheduler without observations.
Init ==
    /\ notice = <<>>
    /\ transient = <<>>
    /\ response = <<>>
    /\ skynet = <<>>
    /\ history = <<>>
    /\ batch = <<>>
    /\ delivered = <<>>
    /\ handled = <<>>
    /\ probe = <<>>

Next == Respond

Spec == Init /\ [][Next]_vars

\* A database that already holds one followed-up event, with the rows tied
\* together as the schema's relationships describe (notice.transient_id and
\* response.transient_id name the transient): transient 1, its notice of
\* trigger 100 and the Response of its early observation 1.
InitStored ==
    LET n == NoticeOf(100, [ra |-> 12000, dec |-> 4000,
                            galactic_b |-> 2961, error |-> 2], 0, TRUE)
    IN  /\ transient = Transient_add(<<>>, n)
        /\ notice = Notice_add(<<>>, n, 1)
        /\ response = Response_add(<<>>, 1, 1)
        /\ skynet = Observation_add(<<>>, n)
        /\ history = <<>>
        /\ batch = <<>>
        /\ delivered = <<>>
        /\ handled = <<>>
        /\ probe = <<>>

SpecStored == InitStored /\ [][Next]_vars

\* ------------------------------------------------- reading a run's history
Calls == 1..Len(history)

\* The tables as respond() call i left them.
TablesAfter(i) ==
    IF i < Len(history) THEN history[i + 1].before
    ELSE [notice |-> notice, transient |-> transient, response |-> response]

\* Rows call i added to a table.
Added(i, table) == Len(TablesAfter(i)[table]) - Len(history[i].before[table])

\* Calls of the given kinds that call i made (the one that raised included).
Made(i, ops) == Count(history[i].log, ops)

\* Calls of the given kinds that call i made and that returned.
RECURSIVE CountReturned(_, _)
CountReturned(log, ops) ==
    IF log = <<>> THEN 0
    ELSE (IF Head(log).op \in ops /\ Head(log).out # "raise" THEN 1 ELSE 0)
         + CountReturned(Tail(log), ops)

\* The sends of kind op that call i made to notifier name.
SendsTo(i, op, name) ==
    Cardinality({ k \in 1..Len(history[i].log) :
                    history[i].log[k].op = op /\ history[i].log[k].to = name })

NotifierNames == Range(Notifiers)

\* Transient row t lies in the 0.5 degree box around notice n and within
\* 30 minutes of it.
Near(t, n) ==
    /\ Abs(t.ra_deg - n.coords.ra) <= RangeDeg
    /\ Abs(t.dec_deg - n.coords.dec) <= RangeDeg
    /\ Abs(t.event_time - n.event_time) <= WindowMinutes

Ids(table) == { table[k].id : k \in 1..Len(table) }

\* Call i was a new, astrophysical, interesting notice.
NewRespondable(i) ==
    /\ history[i].branch = "new"
    /\ history[i].notice.astrophysical
    /\ is_interesting(history[i].notice)

\* ------------------------------------------------------------------ claims

\* C1 (as stated): whenever respond() is called twice in a row with the same
\* notice (same trigger_id, unchanged fields), the second call takes the
\* update branch and adds no Transient row, and each of the two calls adds
\* exactly one Notice row.
C1_ReplayIsUpdate ==
    \A i \in Calls :
        (i + 1 \in Calls /\ history[i + 1].notice = history[i].notice)
        => /\ history[i + 1].branch = "update"
           /\ Added(i + 1, "transient") = 0
           /\ Added(i, "notice") = 1
           /\ Added(i + 1, "notice") = 1

\* C2: a new, astrophysical, interesting notice with a stored Transient in
\* its 0.5 degree box and within 30 minutes is recorded under such a
\* Transient's id, and the call creates no Transient, makes no scheduler add
\* call, adds no Response row and sends no new-event notification.
C2_Deduplication ==
    \A i \in Calls :
        LET n    == history[i].notice
            near == { t \in Range(history[i].before.transient) : Near(t, n) }
            rows == TablesAfter(i).notice
        IN  (NewRespondable(i) /\ near # {})
            => /\ Added(i, "notice") = 1
               /\ rows[Len(rows)].trigger_id = n.id
               /\ rows[Len(rows)].transient_id \in { t.id : t \in near }
               /\ Added(i, "transient") = 0
               /\ Added(i, "response") = 0
               /\ Made(i, {"Observation.add", "Response.add", "Transient.add",
                           "send_new"}) = 0

\* C2 witness: a notice was de-duplicated onto a Transient that sits exactly
\* on the edge of its box or of its time window.
C2_Witness ==
    \E i \in Calls :
        /\ NewRespondable(i)
        /\ \E t \in Range(history[i].before.transient) :
            /\ Near(t, history[i].notice)
            /\ \/ Abs(t.ra_deg - history[i].notice.coords.ra) = RangeDeg
               \/ Abs(t.event_time - history[i].notice.event_time) = WindowMinutes
        /\ Added(i, "notice") = 1
        /\ Added(i, "transient") = 0

C4_FollowUpUpdates ==
    \A i \in Calls :
        LET first  == history[i]
            second == history[i + 1]
            tid    == TablesAfter(i).notice[Len(TablesAfter(i).notice)].transient_id
        IN  ( /\ i + 1 \in Calls
              /\ NewRespondable(i) /\ ~first.raised
              /\ Made(i, {"Observation.add"}) = 1 /\ Added(i, "response") = 1
              /\ second.notice.id = first.notice.id
              /\ second.notice.astrophysical /\ is_interesting(second.notice)
              /\ ~second.raised )
            => /\ second.branch = "update"
               /\ Made(i + 1, {"Observation.update"}) = 1
               /\ TablesAfter(i + 1).transient[tid].ra_deg = second.notice.coords.ra
               /\ TablesAfter(i + 1).transient[tid].dec_deg = second.notice.coords.dec
               /\ \A name \in NotifierNames : SendsTo(i + 1, "send_update", name) = 1
               /\ Added(i + 1, "notice") = 1
               /\ Added(i + 1, "transient") = 0

\* The Transient an update call i works on: the one its stored notices name.
OwnerOf(i) ==
    { row.transient_id : row \in { r \in Range(history[i].before.notice) :
                                     r.trigger_id = history[i].notice.id } }

\* Call i marked Transient tid a false alarm.
MarkedFalseAlarm(i, tid) ==
    \E k \in 1..Len(history[i].log) :
        /\ history[i].log[k].op = "Transient.set_false_alarm"
        /\ history[i].log[k].tid = tid

C6_OneNoticePerCall ==
    \A i \in Calls : Added(i, "notice") = 1

\* C7 (as stated): when the scheduler add call fails for a new interesting
\* notice, a Transient row and a Notice row are still persisted and no
\* Response row is added.
C7_AddFailureStillRecorded ==
    \A i \in Calls :
        ( /\ history[i].branch = "new"
          /\ Made(i, {"Observation.add"}) = 1
          /\ CountReturned(history[i].log, {"Observation.add"}) = 0 )
        => /\ Added(i, "transient") = 1
           /\ Added(i, "notice") = 1
           /\ Added(i, "response") = 0

\* C8 (as stated): when the send of one notifier fails, every other notifier
\* is still sent the message and the Notice row of the notice is persisted.
C8_NotificationBestEffort ==
    \A i \in Calls : \A op \in {"send_new", "send_update"} :
        (Made(i, {op}) > CountReturned(history[i].log, {op}))
        => /\ \A name \in NotifierNames : SendsTo(i, op, name) = 1
           /\ Added(i, "notice") = 1

\* C9 (as stated): every Response row references an existing Transient.
C9_ResponseReferencesTransient ==
    \A k \in 1..Len(response) : response[k].transient_id \in Ids(transient)

\* C10: every Notice row references an existing Transient.
C10_NoticeReferencesTransient ==
    \A k \in 1..Len(notice) : notice[k].transient_id \in Ids(transient)

\* C10 witness: notices were recorded by a new notice and by an update
\* notice.
C10_Witness ==
    /\ Len(notice) >= 2
    /\ \E i \in Calls : history[i].branch = "update" /\ Added(i, "notice") = 1
    /\ \E i \in Calls : history[i].branch = "new" /\ Added(i, "notice") = 1

\* C11: a Transient whose astrophysical flag is false keeps it false through
\* every later respond() call, update notices that report astrophysical=true
\* and new notices de-duplicated onto it included.
C11_FalseAlarmStaysFalse ==
    \A i \in Calls : \A k \in 1..Len(history[i].before.transient) :
        history[i].before.transient[k].astrophysical = 0
        => /\ k <= Len(TablesAfter(i).transient)
           /\ TablesAfter(i).transient[k].id = history[i].before.transient[k].id
           /\ TablesAfter(i).transient[k].astrophysical = 0

\* C11 witness: an update notice reporting astrophysical=true had the
\* coordinates of a false-alarm Transient rewritten.
C11_Witness ==
    \E i \in Calls : \E k \in 1..Len(history[i].log) :
        LET call == history[i].log[k]
        IN  /\ history[i].branch = "update"
            /\ history[i].notice.astrophysical
            /\ call.op = "Transient.update" /\ call.out = "ok"
            /\ history[i].before.transient[call.tid].astrophysical = 0
            /\ TablesAfter(i).transient[call.tid].astrophysical = 0

\* ------------------------------------- the functions called on their own
\* Transient.search and is_interesting are functions of their arguments and
\* of the transient table; here they are called directly, as test_search
\* calls Transient.search, on tables and arguments that reach the ends of
\* the RA circle and the galactic cut.

\* The largest transient table the direct calls search.
MaxRows == 2

\* Right ascensions of stored Transients: both ends of the circle, the edges
\* of the boxes searched below, and the far side of the sky.
StoredRa == {0, 300, 301, 18000, 35899, 35900, 35950}

\* The Transient rows a table may hold (id apart): inside and outside the
\* searched declination band and time window.
StoredRows ==
    [ event_time : {0, 31}, ra_deg : StoredRa, dec_deg : {4000, 4300},
      pos_error_deg : {2}, astrophysical : {1} ]

\* (ra_deg, dec_deg, range_deg, start_time, end_time) of the searches: boxes
\* that cross 0 (1 +- 2 degrees), that cross 360 (359 +- 2), that touch
\* neither end, the 0.5 degree box of known_transient at 359 and at 0.2
\* degrees, and a box and a window with a stored row on their very edge
\* (dec 43 = 41 + 2, event_time 31 = end_time).
Searches ==
    { <<100, 4000, 200, 0 - WindowMinutes, WindowMinutes>>,
      <<35900, 4000, 200, 0 - WindowMinutes, WindowMinutes>>,
      <<18000, 4000, 200, 0 - WindowMinutes, WindowMinutes>>,
      <<35900, 4000, RangeDeg, 0 - WindowMinutes, WindowMinutes>>,
      <<20, 4000, RangeDeg, 0 - WindowMinutes, WindowMinutes>>,
      <<18000, 4100, 200, 0 - WindowMinutes, WindowMinutes>>,
      <<500, 4000, 200, 1, 31>> }

\* Galactic latitudes on and around the cut of is_interesting.
Latitudes == {-410, -401, -400, -399, 0, 399, 400, 401, 410}

\* A database whose transient table holds up to MaxRows rows.
InitDirect ==
    /\ \E len \in 0..MaxRows : \E rows \in [1..len -> StoredRows] :
         transient = [ i \in 1..len |->
                         [ id            |-> i,
                           event_time    |-> rows[i].event_time,
                           ra_deg        |-> rows[i].ra_deg,
                           dec_deg       |-> rows[i].dec_deg,
                           pos_error_deg |-> rows[i].pos_error_deg,
                           astrophysical |-> rows[i].astrophysical ] ]
    /\ notice = <<>>
    /\ response = <<>>
    /\ skynet = <<>>
    /\ history = <<>>
    /\ batch = <<>>
    /\ delivered = <<>>
    /\ handled = <<>>
    /\ probe = <<>>

\* Transient.search(ra_deg, dec_deg, range_deg, start_time, end_time) is
\* called and returns its rows (fetchall).
Search ==
    /\ \E s \in Searches :
         probe' = <<[ fn         |-> "Transient.search",
                      ra_deg     |-> s[1],
                      dec_deg    |-> s[2],
                      range_deg  |-> s[3],
                      start_time |-> s[4],
                      end_time   |-> s[5],
                      rows       |-> Transient_search(transient, s[1], s[2], s[3],
                                                      s[4], s[5]) ]>>
    /\ UNCHANGED <<notice, transient, response, skynet, history, batch, delivered, handled>>

\* Transient.search(..., one_or_none=True) is called, as known_transient
\* calls it, and returns the row fetchone() hands back, or None.
SearchOne ==
    /\ \E s \in Searches :
       \E row \in fetchone(Transient_search(transient, s[1], s[2], s[3], s[4], s[5])) :
         probe' = <<[ fn         |-> "Transient.search one_or_none",
                      ra_deg     |-> s[1],
                      dec_deg    |-> s[2],
                      range_deg  |-> s[3],
                      start_time |-> s[4],
                      end_time   |-> s[5],
                      row        |-> row ]>>
    /\ UNCHANGED <<notice, transient, response, skynet, history, batch, delivered, handled>>

\* is_interesting() is called on a responder whose notice lies at galactic
\* latitude b.
IsInteresting ==
    /\ \E b \in Latitudes :
         LET n == NoticeOf(100, [ra |-> 12000, dec |-> 4000,
                                 galactic_b |-> b, error |-> 2], 0, TRUE)
         IN  probe' = <<[ fn         |-> "is_interesting",
                          galactic_b |-> n.coords.galactic_b,
                          result     |-> is_interesting(n) ]>>
    /\ UNCHANGED <<notice, transient, response, skynet, history, batch, delivered, handled>>

NextDirect == Search \/ SearchOne \/ IsInteresting

SpecDirect == InitDirect /\ [][NextDirect]_vars

\* The direct calls of function fn made last (at most one).
Probes(fn) == { k \in 1..Len(probe) : probe[k].fn = fn }

\* C12: when the RA interval [ra - range, ra + range] of a search crosses 0
\* or 360, Transient.search returns exactly the stored Transients inside the
\* Dec and time windows whose ra_deg lies in one of the two sub-ranges got by
\* re-basing the interval modulo 360 (for ra 1 and range 2: [0, 3] or
\* [359, 360], so that a Transient at 359.5 is returned and one at 180 is
\* not).
C12_SearchWrapsAround ==
    \A k \in Probes("Transient.search") :
        LET q  == probe[k]
            lo == (q.ra_deg - q.range_deg) % FullCircle
            hi == (q.ra_deg + q.range_deg) % FullCircle
            in_window(row) ==
                /\ q.start_time <= row.event_time /\ row.event_time <= q.end_time
                /\ Abs(row.dec_deg - q.dec_deg) <= q.range_deg
            expected(row) ==
                /\ in_window(row)
                /\ \/ 0 <= row.ra_deg /\ row.ra_deg <= hi
                   \/ lo <= row.ra_deg /\ row.ra_deg <= FullCircle
        IN  (q.ra_deg - q.range_deg < 0 \/ q.ra_deg + q.range_deg > FullCircle)
            => /\ q.rows = SelectSeq(transient, expected)
               /\ (q.ra_deg = 100 /\ q.range_deg = 200)
                    => \A row \in Range(transient) :
                         /\ (row.ra_deg = 35950 /\ in_window(row))
                                => row \in Range(q.rows)
                         /\ row.ra_deg = 18000 => row \notin Range(q.rows)

\* C12 witness: the search around ra 1 degree with range 2 degrees returned
\* a Transient stored at 359.5 degrees and left out one stored at 180.
C12_Witness ==
    \E k \in Probes("Transient.search") :
        /\ probe[k].ra_deg = 100 /\ probe[k].range_deg = 200
        /\ \E row \in Range(probe[k].rows) : row.ra_deg = 35950
        /\ \E row \in Range(transient) :
             row.ra_deg = 18000 /\ row \notin Range(probe[k].rows)

\* C13: is_interesting() is true exactly when the absolute galactic latitude
\* of the notice is strictly greater than 4.0 degrees: false at 4.0 and at
\* -4.0, true at 4.1 and at -4.1.
C13_InterestingIsStrict ==
    \A k \in Probes("is_interesting") :
        LET b == probe[k].galactic_b
        IN  /\ probe[k].result <=> (b > 400 \/ b < -400)
            /\ b \in {400, -400} => ~probe[k].result
            /\ b \in {410, -410} => probe[k].result

\* C13 witness: is_interesting() was called at latitude -4.0 and said no.
C13_Witness ==
    \E k \in Probes("is_interesting") :
        probe[k].galactic_b = -400 /\ ~probe[k].result


\* ------------------------------------------- a notice without its transient
\* The database as test_add leaves it: Notice.add(self.notice, 2) on its own
\* stores a notice under transient id 2 while the transient table is empty.
InitTestAdd ==
    LET n == NoticeOf(100, [ra |-> 12000, dec |-> 4000,
                            galactic_b |-> 2961, error |-> 2], 0, TRUE)
    IN  /\ notice = Notice_add(<<>>, n, 2)
        /\ transient = <<>>
        /\ response = <<>>
        /\ skynet = <<>>
        /\ history = <<>>
        /\ batch = <<>>
        /\ delivered = <<>>
        /\ handled = <<>>
        /\ probe = <<>>

SpecTestAdd == InitTestAdd /\ [][Next]_vars

\* The scheduler requests, the sends and the building of the update message.
ExternalCalls ==
    {"Observation.add", "Observation.get", "Observation.update",
     "send_new", "send_update", "join"}

\* Update call i found a stored notice of its trigger whose transient_id
\* names no Transient row.
DanglingOwner(i) ==
    /\ history[i].branch = "update"
    /\ \E row \in Range(history[i].before.notice) :
         /\ row.trigger_id = history[i].notice.id
         /\ row.transient_id \notin Ids(history[i].before.transient)

\* C14: an update notice whose trigger_id has a stored Notice whose
\* transient_id matches no Transient row aborts with an error that leaves
\* respond(), changes no table and makes no scheduler or notifier call.
C14_LookupErrorIsAtomic ==
    \A i \in Calls :
        DanglingOwner(i)
        => /\ history[i].raised
           /\ TablesAfter(i) = history[i].before
           /\ Made(i, ExternalCalls) = 0
           /\ \A k \in 1..Len(history[i].log) :
                history[i].log[k].op \in MustRaise

\* C14 witness: such a notice arrived after another notice had been stored
\* with its Transient, and its processing raised.
C14_Witness ==
    \E i \in Calls :
        /\ DanglingOwner(i)
        /\ history[i].raised
        /\ history[i].before.transient # <<>>
        /\ history[i].notice.astrophysical /\ is_interesting(history[i].notice)


\* --------------------------------------------------- listener (listener.py)
\* The topic factories.responder knows, and one it does not.
Topic == "gcn.notices.einstein_probe.wxt.alert"

OtherTopic == "gcn.notices.other"

\* ------------------------------------- the notice parser (einstein_json.py)
\* The keys EinsteinJsonNotice reads from the deserialized message.
Keys == {"id", "instrument", "trigger_time", "ra", "dec", "ra_dec_error",
         "image_snr"}

\* A JSON value as json.loads hands it over: an int, a str (its characters)
\* or a list of values.
JsonInt(n) == [kind |-> "int", n |-> n, text |-> <<>>, items |-> <<>>]

JsonStr(text) == [kind |-> "str", n |-> 0, text |-> text, items |-> <<>>]

JsonList(items) == [kind |-> "list", n |-> 0, text |-> <<>>, items |-> items]

\* The decimal digits as characters.
Digits == <<"0", "1", "2", "3", "4", "5", "6", "7", "8", "9">>

RECURSIVE str(_)
\* The decimal text of a natural number.
str(n) ==
    IF n < 10 THEN <<Digits[n + 1]>>
    ELSE Append(str(n \div 10), Digits[(n % 10) + 1])

\* The id as Einstein Probe notices carry it: a list holding the number as
\* text with a leading zero (the test resource reads as int('01708973486')).
EinsteinId(trig) == JsonList(<<JsonStr(<<"0">> \o str(trig))>>)

RECURSIVE decimal(_)
\* The number a text of digits denotes.
decimal(text) ==
    IF text = <<>> THEN 0
    ELSE 10 * decimal(SubSeq(text, 1, Len(text) - 1))
         + (CHOOSE d \in 0..9 : Digits[d + 1] = text[Len(text)])

\* Python's int(): an int is returned as it is, a str is read as a decimal
\* number (ValueError when it is empty or holds another character), a list
\* is a TypeError.
int(v) ==
    IF v.kind = "int" THEN [raised |-> FALSE, val |-> v.n]
    ELSE IF /\ v.kind = "str"
            /\ v.text # <<>>
            /\ \A i \in 1..Len(v.text) : v.text[i] \in Range(Digits)
    THEN [raised |-> FALSE, val |-> decimal(v.text)]
    ELSE [raised |-> TRUE, val |-> 0]

\* A message value.  json tells whether json.loads accepts it; absent are
\* the keys that are missing from the document and null the keys that are
\* null in it (dict.get gives None for both; what the record holds under
\* such a key is not read).
\* astrophysical is a key of the document that the parser has no code for.
Record(trig, loc, t, absent, flag) ==
    [ json          |-> TRUE,
      absent        |-> absent,
      null          |-> {},
      id            |-> EinsteinId(trig),
      instrument    |-> "WXT",
      trigger_time  |-> t,
      ra            |-> loc.ra,
      dec           |-> loc.dec,
      ra_dec_error  |-> loc.error,
      image_snr     |-> 1,
      astrophysical |-> flag ]

\* The position the test resource of test_einstein_notice.py carries, here
\* the first of Localizations.
BaseLocalization == CHOOSE loc \in Localizations : loc.ra = 12000 /\ loc.dec = 4000

\* A message value that is no JSON document: json.loads raises on it.
Malformed == [Record(100, BaseLocalization, 0, Keys, TRUE) EXCEPT !.json = FALSE]

\* The documents the transport may carry: complete ones, one with each
\* single key missing, one with neither ra nor dec, one without position
\* error for every position, and complete ones that say astrophysical:
\* false.
Records ==
    { Record(trig, loc, t, {}, TRUE) :
        trig \in TriggerIds, loc \in Localizations, t \in EventTimes }
    \cup { Record(100, BaseLocalization, 0, {key}, TRUE) : key \in Keys }
    \cup { Record(100, BaseLocalization, 0, {"ra", "dec"}, TRUE) }
    \cup { Record(100, loc, 0, {"ra_dec_error"}, TRUE) : loc \in Localizations }
    \cup { Record(trig, BaseLocalization, 0, {}, FALSE) : trig \in TriggerIds }

\* dict.get(key): the value, or None when the key is missing or null.
dict_get(d, key) ==
    IF key \in d.absent \/ key \in d.null
    THEN [none |-> TRUE]
    ELSE [none |-> FALSE, val |-> d[key]]

\* Mutant of get_dict_value: a None value is handed back whether or not the
\* caller required the key.
get_dict_value_lenient(d, key, quiet, required) ==
    LET val == dict_get(d, key)
    IN  [raised |-> FALSE, val |-> val]

\* utils.get_dict_value (json_utils.get_value delegates to it): d.get(key),
\* which raises no KeyError for quiet to silence, and ValueError when the
\* value is None and the caller required it.
get_dict_value(d, key, quiet, required) ==
    LET val == dict_get(d, key)
    IN  [raised |-> val.none /\ required, val |-> val]

\* EinsteinJsonNotice.parse_id: the required 'id', int() of its first
\* element when it is a list (IndexError when the list is empty) and int()
\* of the value otherwise.
parse_id(record) ==
    LET trigger_id == get_dict_value(record, "id", FALSE, TRUE)
    IN  IF trigger_id.raised THEN [raised |-> TRUE, val |-> 0]
        ELSE IF trigger_id.val.val.kind = "list"
        THEN IF trigger_id.val.val.items = <<>>
             THEN [raised |-> TRUE, val |-> 0]
             ELSE int(trigger_id.val.val.items[1])
        ELSE int(trigger_id.val.val)

\* SkyCoord(ra=..., dec=..., unit='deg'): astropy drops a None component and
\* then raises for the frame data it cannot build; coords.galactic.b is the
\* latitude astropy computes for the position.
SkyCoord(ra, dec) ==
    IF ra.none \/ dec.none
    THEN [raised |-> TRUE]
    ELSE [raised |-> FALSE,
          coords |-> [ra |-> ra.val, dec |-> dec.val,
                      galactic_b |->
                          (CHOOSE loc \in Localizations :
                               loc.ra = ra.val /\ loc.dec = dec.val).galactic_b]]

\* EinsteinJsonNotice.parse_coordinates_error: record.get('ra_dec_error'),
\* None when the key is missing.
parse_coordinates_error(record) ==
    LET val == dict_get(record, "ra_dec_error")
    IN  IF val.none THEN NoneId ELSE val.val

\* Mutant of EinsteinJsonNotice: astrophysical is read from the document.
EinsteinJsonNotice_reads_flag(record) ==
    LET id         == parse_id(record)
        instrument == get_dict_value(record, "instrument", FALSE, TRUE)
        event_time == get_dict_value(record, "trigger_time", FALSE, TRUE)
        image_snr  == get_dict_value(record, "image_snr", FALSE, FALSE)
        coords     == SkyCoord(dict_get(record, "ra"), dict_get(record, "dec"))
    IN  IF \/ ~record.json
           \/ id.raised \/ instrument.raised \/ event_time.raised
           \/ image_snr.raised \/ coords.raised
        THEN [raised |-> TRUE]
        ELSE [raised |-> FALSE,
              notice |-> [ id               |-> id.val,
                           observatory      |-> "Einstein Probe",
                           instrument       |-> instrument.val.val,
                           event_time       |-> event_time.val.val,
                           coords           |-> coords.coords,
                           coords_error_deg |-> parse_coordinates_error(record),
                           astrophysical    |-> record.astrophysical ]]

\* EinsteinJsonNotice.__init__ with parse(): json_utils.read, then
\* parse_id, parse_instrument, parse_event_time, parse_image_snr,
\* parse_coordinates and parse_coordinates_error, any of which may raise.
\* astrophysical is set to True and never parsed.
EinsteinJsonNotice(record) ==
    LET id         == parse_id(record)
        instrument == get_dict_value(record, "instrument", FALSE, TRUE)
        event_time == get_dict_value(record, "trigger_time", FALSE, TRUE)
        image_snr  == get_dict_value(record, "image_snr", FALSE, FALSE)
        coords     == SkyCoord(dict_get(record, "ra"), dict_get(record, "dec"))
    IN  IF \/ ~record.json
           \/ id.raised \/ instrument.raised \/ event_time.raised
           \/ image_snr.raised \/ coords.raised
        THEN [raised |-> TRUE]
        ELSE [raised |-> FALSE,
              notice |-> [ id               |-> id.val,
                           observatory      |-> "Einstein Probe",
                           instrument       |-> instrument.val.val,
                           event_time       |-> event_time.val.val,
                           coords           |-> coords.coords,
                           coords_error_deg |-> parse_coordinates_error(record),
                           astrophysical    |-> TRUE ]]

\* The messages the transport may deliver: Einstein Probe alerts, an alert
\* whose value is no JSON document, and a message of another topic.
Messages ==
    { [topic |-> Topic, value |-> r] : r \in Records }
    \cup { [topic |-> Topic, value |-> Malformed],
           [topic |-> OtherTopic, value |-> Malformed] }

\* consume() is called without arguments: num_messages has its default, 1.
NumMessages == 1

\* Mutant of consume: consume() hands back up to two messages at a time.
consume_many == UNION { [1..k -> Messages] : k \in 1..(NumMessages + 1) }

\* The lists self.kafka.consumer.consume() may return (it blocks until a
\* message is there).
consume == UNION { [1..k -> Messages] : k \in 1..NumMessages }

\* factories.responder(message) raises: ValueError('Unexpected topic!') or
\* the parser's error.
responder_raises(message) ==
    message.topic # Topic \/ EinsteinJsonNotice(message.value).raised

\* Where listen() is after the try statement ran, with or without an
\* exception: "except Exception" catches it, "finally" prints, and the
\* "while True" goes round again.
listen_after(raised) == "listening"

\* listen() has not left its loop.
Listening ==
    IF handled = <<>> THEN TRUE
    ELSE handled[Len(handled)].listener = "listening"

\* Mutant of Consume: the consumer is polled while a message is still with
\* its responder (as a second thread running listen() would).
Consume_while_busy ==
    /\ Listening
    /\ Len(delivered) < MaxCalls
    /\ \E messages \in consume :
         /\ batch' = batch \o messages
         /\ delivered' = delivered \o messages
    /\ UNCHANGED <<notice, transient, response, skynet, history, handled, probe>>

\* line 36: the for statement asks the consumer for the next messages.
Consume ==
    /\ Listening
    /\ batch = <<>>
    /\ Len(delivered) < MaxCalls
    /\ \E messages \in consume :
         /\ batch' = messages
         /\ delivered' = delivered \o messages
    /\ UNCHANGED <<notice, transient, response, skynet, history, handled, probe>>

\* line 37, factories.responder(message) raising: the exception leaves the
\* for loop, and with it what is left of the list consume() returned.
Reject ==
    /\ Listening
    /\ batch # <<>>
    /\ responder_raises(Head(batch))
    /\ batch' = <<>>
    /\ handled' = Append(handled, [ message  |-> Head(batch),
                                    raised   |-> TRUE,
                                    call     |-> 0,
                                    listener |-> listen_after(TRUE) ])
    /\ UNCHANGED <<notice, transient, response, skynet, history, delivered, probe>>

\* line 37, factories.responder(message).respond(): the for loop goes on to
\* the next message when it returns and is left when it raises.
Handle ==
    /\ Listening
    /\ batch # <<>>
    /\ ~responder_raises(Head(batch))
    /\ respond(EinsteinJsonNotice(Head(batch).value).notice)
    /\ LET raised == history'[Len(history')].raised
       IN  /\ batch' = IF raised THEN <<>> ELSE Tail(batch)
           /\ handled' = Append(handled, [ message  |-> Head(batch),
                                           raised   |-> raised,
                                           call     |-> Len(history'),
                                           listener |-> listen_after(raised) ])
    /\ UNCHANGED <<delivered, probe>>

NextListener == Consume \/ Reject \/ Handle

SpecListener == Init /\ [][NextListener]_vars

\* The messages passed to factories.responder, in order.  Each entry of
\* handled keeps the message, whether the try body raised, and call: the
\* index in history of the respond() call made for it, 0 when the responder
\* could not be built.
HandledMessages == [ k \in 1..Len(handled) |-> handled[k].message ]

\* C15: when building the responder or respond() raises for a message, the
\* listener does not leave its loop, and every other message the transport
\* delivered has been passed to a responder or is the next to be: none is
\* dropped, in the same consume() list or in a later one.
C15_StreamNeverHalts ==
    /\ \A k \in 1..Len(handled) : handled[k].listener = "listening"
    /\ delivered = HandledMessages \o batch

\* C15 witness: respond() raised for one alert, another message could not be
\* given a responder, and the alert delivered after them was responded to.
C15_Witness ==
    \E j \in 1..Len(handled) : \E k \in 1..Len(handled) :
        /\ j < k
        /\ handled[j].raised
        /\ ~handled[k].raised
        /\ \E i \in 1..Len(handled) : handled[i].raised /\ ~responder_raises(handled[i].message)
        /\ history # <<>>
        /\ history[Len(history)].notice = EinsteinJsonNotice(handled[k].message.value).notice


\* The writes to the tables and the sends.
StoreWrites ==
    {"Response.add", "Transient.add", "Transient.update",
     "Transient.set_false_alarm", "Notice.add"}

Sends == {"send_new", "send_update"}

\* C16 (as stated): within one respond() call a store write is issued only
\* after the scheduler call it belongs to has returned (Response.add after
\* Observation.add, Transient.update after Observation.update), and a
\* notification is sent only after all the store writes of the call: no
\* store write follows a send.
C16_StoreBeforeNotify ==
    \A i \in Calls :
        LET log == history[i].log
        IN  \A l \in 1..Len(log) :
              /\ log[l].op = "Response.add"
                    => \E k \in 1..(l - 1) :
                         log[k].op = "Observation.add" /\ log[k].out = "ok"
              /\ log[l].op = "Transient.update"
                    => /\ l > 1
                       /\ log[l - 1].op = "Observation.update"
                       /\ log[l - 1].out = "ok"
              /\ log[l].op \in StoreWrites
                    => \A k \in 1..(l - 1) : log[k].op \notin Sends


\* C17 (as stated): whenever respond_to_new_notice skips scheduling because
\* known_transient() returned a Transient, that Transient is astrophysical
\* and at least one Response row references it.
C17_MatchIsFollowedUp ==
    \A i \in Calls : \A k \in 1..Len(history[i].log) :
        LET call == history[i].log[k]
        IN  ( /\ NewRespondable(i)
              /\ Made(i, {"Observation.add"}) = 0
              /\ call.op = "Notice.add" )
            => /\ history[i].before.transient[call.tid].astrophysical = 1
               /\ \E row \in Range(history[i].before.response) :
                    row.transient_id = call.tid


\* C18: a scheduler add call, a Response insertion and a new-event
\* notification are made only by calls whose trigger_id is not stored yet and
\* whose notice is astrophysical, interesting and matched by no stored
\* Transient; a new notice that is not astrophysical or not interesting only
\* creates one Transient row and one Notice row; an update call never calls
\* scheduler add and creates no Transient and no Response row.
C18_SchedulingGuard ==
    \A i \in Calls :
        LET n      == history[i].notice
            stored == get(history[i].before.notice, "trigger_id", n.id) # <<>>
            found  == Transient_search(history[i].before.transient,
                                       n.coords.ra, n.coords.dec, RangeDeg,
                                       n.event_time - WindowMinutes,
                                       n.event_time + WindowMinutes)
        IN  /\ Made(i, {"Observation.add", "Response.add", "send_new"}) > 0
                => /\ ~stored
                   /\ n.astrophysical
                   /\ Abs(n.coords.galactic_b) > 400
                   /\ found = <<>>
            /\ (~stored /\ (~n.astrophysical \/ Abs(n.coords.galactic_b) <= 400))
                => /\ Len(history[i].log) = 2
                   /\ history[i].log[1].op = "Transient.add"
                   /\ history[i].log[2].op = "Notice.add"
                   /\ Added(i, "transient") = 1
                   /\ Added(i, "notice") = 1
                   /\ Added(i, "response") = 0
            /\ stored
                => /\ history[i].branch = "update"
                   /\ Made(i, {"Observation.add", "Transient.add", "Response.add"}) = 0
                   /\ Added(i, "transient") = 0
                   /\ Added(i, "response") = 0

\* C18 witness: an astrophysical notice near the galactic plane was stored
\* with nothing scheduled, and another notice was followed up.
C18_Witness ==
    /\ \E i \in Calls :
         /\ history[i].branch = "new"
         /\ history[i].notice.astrophysical
         /\ ~is_interesting(history[i].notice)
         /\ Added(i, "transient") = 1
         /\ Added(i, "notice") = 1
    /\ \E i \in Calls :
         /\ Made(i, {"Observation.add"}) = 1
         /\ Added(i, "response") = 1


\* The Observation.get requests of call i, and the observations the scheduler
\* reported to it as active and as not active.
Lookups(i) == SelectSeq(history[i].log, LAMBDA call : call.op = "Observation.get")

ActiveObs(i) == { call.obs : call \in { c \in Range(Lookups(i)) : c.out = "active" } }

InactiveObs(i) ==
    { call.obs : call \in { c \in Range(Lookups(i)) : c.out \notin {"active", "raise"} } }

\* Call i asked the scheduler about every Response of Transient tid and got
\* an answer each time.
LookupsReturned(i, tid) ==
    /\ Len(Lookups(i)) = Len(get(history[i].before.response, "transient_id", tid))
    /\ \A call \in Range(Lookups(i)) : call.out # "raise"

\* The scheduler update calls call i made for observation obs.
UpdatesOf(i, obs) ==
    Cardinality({ k \in 1..Len(history[i].log) :
                    /\ history[i].log[k].op = "Observation.update"
                    /\ history[i].log[k].obs = obs })

Rewritten(i) ==
    { history[i].log[k].tid : k \in { j \in 1..Len(history[i].log) :
                                        /\ history[i].log[j].op = "Transient.update"
                                        /\ history[i].log[j].out = "ok" } }

InBox(q) ==
    SelectSeq(transient, LAMBDA row :
        /\ q.ra_deg - q.range_deg <= row.ra_deg
        /\ row.ra_deg <= q.ra_deg + q.range_deg
        /\ q.dec_deg - q.range_deg <= row.dec_deg
        /\ row.dec_deg <= q.dec_deg + q.range_deg
        /\ q.start_time <= row.event_time
        /\ row.event_time <= q.end_time)

\* The RA interval of direct call q crosses neither 0 nor 360.
NoWraparound(q) ==
    q.ra_deg - q.range_deg >= 0 /\ q.ra_deg + q.range_deg <= FullCircle

\* C22: without RA wraparound, Transient.search returns exactly the stored
\* Transients with ra_deg, dec_deg and event_time inside the box and the
\* window, all bounds inclusive; with one_or_none=True it returns None if and
\* only if that set is empty, and otherwise one member of it, whichever.
C22_SearchResultSet ==
    /\ \A k \in Probes("Transient.search") :
         NoWraparound(probe[k]) => probe[k].rows = InBox(probe[k])
    /\ \A k \in Probes("Transient.search one_or_none") :
         NoWraparound(probe[k])
         => /\ probe[k].row = NoneRow <=> InBox(probe[k]) = <<>>
            /\ probe[k].row # NoneRow => probe[k].row \in Range(InBox(probe[k]))

\* C22 witness: a one_or_none search with two Transients in its box, one of
\* them on the edge of the box and of the time window, returned the one on
\* the edge and not the one nearer the centre.
C22_Witness ==
    \E k \in Probes("Transient.search one_or_none") :
        /\ NoWraparound(probe[k])
        /\ Len(InBox(probe[k])) = 2
        /\ probe[k].row # NoneRow
        /\ probe[k].row.ra_deg = probe[k].ra_deg - probe[k].range_deg
        /\ probe[k].row.event_time = probe[k].end_time
        /\ \E other \in Range(InBox(probe[k])) :
             Abs(other.ra_deg - probe[k].ra_deg)
                < Abs(probe[k].row.ra_deg - probe[k].ra_deg)


\* The Response rows that reference Transient tid.
ResponsesOf(tid) == { k \in 1..Len(response) : response[k].transient_id = tid }

RequiredKeys == {"id", "instrument", "trigger_time", "ra", "dec", "ra_dec_error"}

\* The alerts handled so far whose document parses as JSON.
Alerts == { k \in 1..Len(handled) :
              handled[k].message.topic = Topic /\ handled[k].message.value.json }

\* C24: an alert whose payload lacks a required field (id, instrument,
\* trigger time, ra, dec, position error) fails at construction of the
\* notice: no respond() call is made for it and no table changes; an alert
\* that lacks only image_snr is given to respond().
C24_IncompletePayloadRejected ==
    \A k \in Alerts :
        LET absent == handled[k].message.value.absent
        IN  /\ absent \cap RequiredKeys # {} =>
                /\ handled[k].raised
                /\ handled[k].call = 0
            /\ absent = {"image_snr"} => handled[k].call # 0

\* C25: across any respond() call, every Transient row that existed before
\* the call still exists under the same id, and every Notice row that
\* existed before is unchanged: Transients are never deleted and the notice
\* table only grows.
C25_StorageNeverDestroyed ==
    \A i \in Calls :
        LET before == history[i].before
            after  == TablesAfter(i)
        IN  /\ Len(before.transient) <= Len(after.transient)
            /\ \A r \in 1..Len(before.transient) :
                   after.transient[r].id = before.transient[r].id
            /\ Len(before.notice) <= Len(after.notice)
            /\ \A r \in 1..Len(before.notice) :
                   after.notice[r] = before.notice[r]

\* C25 witness: an update call rewrote the coordinates of a stored Transient
\* to other values and recorded its notice next to the notice stored before.
C25_Witness ==
    \E i \in Calls : \E tid \in Rewritten(i) :
        /\ history[i].before.notice # <<>>
        /\ TablesAfter(i).transient[tid] # history[i].before.transient[tid]
        /\ Added(i, "notice") = 1

\* The observations call i booked at the scheduler (Observation.add
\* returned).
Booked(i) ==
    { history[i].log[k].obs : k \in { j \in 1..Len(history[i].log) :
                                        /\ history[i].log[j].op = "Observation.add"
                                        /\ history[i].log[j].out = "ok" } }

\* C26: a new-notice respond() call that raises after its scheduler add
\* call returned leaves the observation booked at the scheduler while the
\* store has no Response row for it, or has the Response row but neither a
\* Transient nor a Notice row for the notice.
C26_AbortLeavesOrphan ==
    \A i \in Calls : \A obs \in Booked(i) :
        (history[i].branch = "new" /\ history[i].raised) =>
            LET after == TablesAfter(i)
            IN  /\ \E o \in Range(skynet) : o.id = obs
                /\ Added(i, "transient") = 0
                /\ Added(i, "notice") = 0
                /\ \/ Added(i, "response") = 0
                   \/ /\ Added(i, "response") = 1
                      /\ after.response[Len(after.response)].obs_id = obs

\* C26 witness: the execution the claim speaks of.  The scheduler holds an
\* observation and the store its Response row, but no Transient and no
\* Notice row, after a new-notice call raised at a send.
C26_Witness ==
    \E i \in Calls : \E obs \in Booked(i) :
        /\ history[i].branch = "new"
        /\ history[i].raised
        /\ \E o \in Range(skynet) : o.id = obs
        /\ \E r \in Range(response) : r.obs_id = obs
        /\ transient = <<>>
        /\ notice = <<>>

\* C27: the listener takes the next message only when every message taken
\* before has been dealt with (its respond() returned or raised, or no
\* responder could be built for it), and every step that changes the store
\* or the scheduler is the one respond() call of the one message then being
\* handled: no message is taken during it.
C27_StrictlySequential ==
    [][ /\ delivered' # delivered =>
            /\ batch = <<>>
            /\ HandledMessages = delivered
        /\ <<notice, transient, response, skynet>>' # <<notice, transient, response, skynet>> =>
            /\ delivered' = delivered
            /\ Len(history') = Len(history) + 1
            /\ Len(handled') = Len(handled) + 1
            /\ handled'[Len(handled')].call = Len(history')
            /\ handled'[Len(handled')].message = delivered[Len(handled')] ]_vars

\* C27 witness: two alerts of different triggers were taken one after the
\* other and each was responded to with store writes of its own.
C27_Witness ==
    /\ Len(handled) = 2
    /\ Len(delivered) = 2
    /\ handled[1].call = 1
    /\ handled[2].call = 2
    /\ history[1].notice.id # history[2].notice.id
    /\ Added(1, "notice") = 1
    /\ Added(2, "notice") = 1

\* C28: all Notice rows that share a trigger_id carry the same transient_id:
\* every update notice is recorded under the Transient chosen for the first
\* notice of its trigger.
C28_OneTransientPerTrigger ==
    \A a \in Range(notice) : \A b \in Range(notice) :
        a.trigger_id = b.trigger_id => a.transient_id = b.transient_id

\* C28 witness: an update notice was recorded next to the first notice of
\* its trigger while another Transient was there to be confused with.
C28_Witness ==
    \E i \in Calls :
        /\ history[i].branch = "update"
        /\ Added(i, "notice") = 1
        /\ \E a \in Range(history[i].before.notice) :
               a.trigger_id = history[i].notice.id
        /\ Len(transient) >= 2

RECURSIVE SchedulerAdds(_, _)
\* The scheduler add calls that returned during the first i respond() calls
\* for notices of trigger trig.
SchedulerAdds(i, trig) ==
    IF i = 0 THEN 0
    ELSE (IF history[i].notice.id = trig
          THEN CountReturned(history[i].log, {"Observation.add"}) ELSE 0)
         + SchedulerAdds(i - 1, trig)

\* C29 (as stated): over any sequence of deliveries, a notice delivered
\* again after an aborted call included, at most one scheduler add call
\* returns for any one trigger_id.
C29_NoDuplicateFollowUp ==
    \A trig \in TriggerIds : SchedulerAdds(Len(history), trig) <= 1

\* C30: every notice EinsteinJsonNotice builds has astrophysical = True
\* whatever its document says, so over any sequence of messages the
\* false-alarm branch is never taken and every Transient row is stored with
\* astrophysical = 1.
C30_AlwaysAstrophysical ==
    /\ \A k \in 1..Len(handled) :
           handled[k].call # 0 =>
               /\ EinsteinJsonNotice(handled[k].message.value).notice.astrophysical
               /\ history[handled[k].call].notice.astrophysical
    /\ \A i \in Calls : Made(i, {"Transient.set_false_alarm"}) = 0
    /\ \A r \in Range(transient) : r.astrophysical = 1

\* C30 witness: a document that says astrophysical: false was responded to
\* as an update of a stored astrophysical Transient, and recorded.
C30_Witness ==
    \E k \in 1..Len(handled) :
        /\ handled[k].call # 0
        /\ ~handled[k].message.value.astrophysical
        /\ history[handled[k].call].branch = "update"
        /\ ~history[handled[k].call].raised
        /\ \E tid \in OwnerOf(handled[k].call) :
               history[handled[k].call].before.transient[tid].astrophysical = 1

\* ------------------------------------ the parser functions called on their own
\* The document the functions are called on, with keys taken out or nulled.
BaseRecord == Record(100, BaseLocalization, 0, {}, TRUE)

\* The keys that are taken out of the document, or nulled in it.
DroppedKeys == {{}, {"id"}, {"image_snr"}}

\* The dictionaries get_dict_value is called on.
Dicts ==
    { [BaseRecord EXCEPT !.absent = pair[1], !.null = pair[2]] :
        pair \in { x \in DroppedKeys \X DroppedKeys : x[1] \cap x[2] = {} } }

\* The keys it is asked for.
AskedKeys == {"id", "instrument", "ra_dec_error", "image_snr"}

\* The values a document may hold under 'id'.
IdValues ==
    { JsonInt(100),
      JsonStr(str(100)),
      JsonStr(<<"0">> \o str(200)),
      JsonStr(<<>>),
      JsonStr(<<"x">>),
      EinsteinId(100),
      JsonList(<<JsonInt(200), JsonInt(100)>>),
      JsonList(<<JsonStr(<<"0">> \o str(200)), JsonStr(str(100))>>),
      JsonList(<<>>) }

\* The documents parse_id is called on.
IdRecords ==
    { [BaseRecord EXCEPT !.id = v] : v \in IdValues }
    \cup { [BaseRecord EXCEPT !.absent = {"id"}], [BaseRecord EXCEPT !.null = {"id"}] }

\* get_dict_value is called.
GetDictValue ==
    /\ \E d \in Dicts : \E key \in AskedKeys :
       \E quiet \in BOOLEAN : \E required \in BOOLEAN :
         probe' = <<[ fn       |-> "get_dict_value",
                      d        |-> d,
                      key      |-> key,
                      quiet    |-> quiet,
                      required |-> required,
                      result   |-> get_dict_value(d, key, quiet, required) ]>>
    /\ UNCHANGED <<notice, transient, response, skynet, history, batch, delivered, handled>>

\* parse_id is called on a notice holding the document; lookup is what its
\* get_value call gave.
ParseId ==
    /\ \E d \in IdRecords :
         probe' = <<[ fn     |-> "parse_id",
                      d      |-> d,
                      lookup |-> get_dict_value(d, "id", FALSE, TRUE),
                      result |-> parse_id(d) ]>>
    /\ UNCHANGED <<notice, transient, response, skynet, history, batch, delivered, handled>>

NextParser == GetDictValue \/ ParseId

SpecParser == Init /\ [][NextParser]_vars

\* The key is missing from the dictionary or maps to None.
IsNone(d, key) == key \in d.absent \/ key \in d.null

====
